---- MODULE Spec2Model ----
(***************************************************************************)
(* Model of feeds/phishtank.py: PhishtankFeed.get and                      *)
(* PhishtankFeed._process_rows.                                            *)
(*                                                                         *)
(* Text (a response body, a line, a CSV field, a URL) is a sequence of     *)
(* tokens; "\n" and "," are the tokens the code splits on, "%3F" and "%FF" *)
(* are percent-escapes.  Python values whose type matters for truthiness   *)
(* are tagged tuples: <<"int", n>>, <<"str", s>>, <<"NoneType">>.          *)
(***************************************************************************)
EXTENDS Integers, Sequences, FiniteSets, TLC

VARIABLES
    pc,           \* position of the current get call
    store,        \* records held by the external store (models.Phish)
    config,       \* fields set by __init__: feed, url, last_seen, username, password
    offset,       \* argument of the current get call
    last,         \* params['last'] of the current call
    consulted,    \* Phish.get_most_recent was called in the current call
    nreq,         \* requests.get calls issued by the current call
    response,     \* the response object of the current call
    rows,         \* argument of _process_rows
    i,            \* records read from the csv reader so far
    entries,      \* _process_rows: entries
    urls_seen,    \* _process_rows: urls_seen
    kept,         \* indices (into rows) of the rows whose entry was appended
    exists_calls, \* Phish.exists calls made by the current call
    logged,       \* last message given to logging.error in the current call
    returned,     \* the current call returned normally
    results,      \* value returned by the current call
    exc,          \* exception the current call raised, NoExc when none
    calls,        \* get calls started so far
    sent,         \* params of the requests issued by the current call
    prev_last     \* `last` of the request of the call before, when that call
                  \* was made without an offset, None otherwise

vars == <<pc, store, config, offset, last, consulted, nreq, response, rows, i,
          entries, urls_seen, kept, exists_calls, logged, returned, results,
          exc, calls, sent, prev_last>>

\* ---------------------------------------------------------------- bounds
MaxRows == 2
MaxCalls == 2

\* ------------------------------------------------------- Python values
None == <<"NoneType">>
PyInt(n) == <<"int", n>>
PyStr(s) == <<"str", s>>
NoExc == <<"none">>

\* bool(v): 0, '' and None are false
truthy(v) ==
    IF v[1] = "int" THEN v[2] # 0
    ELSE IF v[1] = "str" THEN v[2] # <<>>
    ELSE FALSE

\* ------------------------------------------------------------- text
NL == "\n"
Comma == ","

\* str.split(sep): the pieces between the separators, always at least one
RECURSIVE SplitFrom(_, _, _, _)
SplitFrom(s, sep, k, cur) ==
    IF k > Len(s) THEN <<cur>>
    ELSE IF s[k] = sep THEN <<cur>> \o SplitFrom(s, sep, k + 1, <<>>)
    ELSE SplitFrom(s, sep, k + 1, Append(cur, s[k]))

split(s, sep) == SplitFrom(s, sep, 1, <<>>)

\* str.splitlines(): as split on the line break, but a final line break
\* does not open another line, and the empty text has no lines
splitlines(s) ==
    LET p == split(s, NL)
    IN  IF p[Len(p)] = <<>> THEN SubSeq(p, 1, Len(p) - 1) ELSE p

\* one record of csv.reader(rows, delimiter=','): an empty line gives [],
\* any other line its comma-separated fields (lines here carry no quotes)
csv_reader(line) == IF line = <<>> THEN <<>> ELSE split(line, Comma)

\* urllib.unquote: each percent-escape becomes the byte it names
unquote_byte(t) ==
    IF t = "%3F" THEN "?"
    ELSE IF t = "%FF" THEN "\\xff"
    ELSE t

unquote(f) == [k \in 1..Len(f) |-> unquote_byte(f[k])]

\* str.decode('utf-8') raises UnicodeDecodeError on a byte that is no UTF-8
decodable(b) == \A k \in 1..Len(b) : b[k] # "\\xff"

\* ------------------------------------------------------------ the store
\* Phish.clean_url: the URL without its query part
RECURSIVE clean_from(_, _)
clean_from(u, k) ==
    IF k > Len(u) THEN u
    ELSE IF u[k] = "?" THEN SubSeq(u, 1, k - 1)
    ELSE clean_from(u, k + 1)

clean_url(u) == clean_from(u, 1)

\* Phish.exists: a record with this raw URL is known
exists(url, st) == \E r \in st : r.url = url

\* Phish.get_most_recent(feed=...): the latest record of the feed, or None
get_most_recent(feed, st) ==
    LET mine == {r \in st : r.feed = feed}
    IN  IF mine = {} THEN None
        ELSE <<"Phish", CHOOSE r \in mine : \A q \in mine : q.ts <= r.ts>>

\* bool(most_recent_phish): None is false, a record is true
found(rec) == rec[1] # "NoneType"

StoreRecords ==
    { [pid |-> PyStr(<<"100">>), url |-> <<"a", "?", "1">>, feed |-> "phishtank", ts |-> 2],
      [pid |-> PyStr(<<"7">>),   url |-> <<"a">>,           feed |-> "other",     ts |-> 3] }

Stores == SUBSET StoreRecords

\* ------------------------------------------------------------- inputs
Offsets == { PyInt(0), PyStr(<<>>), PyStr(<<"55">>) }

Header == <<"phish_id", Comma, "url", Comma, "c2", Comma, "submission_time",
            Comma, "c4", Comma, "verification_time">>
RowA   == <<"101", Comma, "a", Comma, "x", Comma, "t1", Comma, "x", Comma, "v1">>
RowAq  == <<"102", Comma, "a", "%3F", "2", Comma, "x", Comma, "t2", Comma, "x", Comma, "v2">>
RowB   == <<"103", Comma, "b", Comma, "x", Comma, "t3", Comma, "x", Comma, "v3">>
RowShort == <<"104", Comma, "a">>
RowBad == <<"105", Comma, "c", "%FF", Comma, "x", Comma, "t5", Comma, "x", Comma, "v5">>
Blank  == <<>>

\* the first line of a body is never read, only counted
FirstLines == { Header, Blank }

DataLines == { RowA, RowAq, RowB, RowShort, RowBad, Blank }

RECURSIVE Join(_)
Join(ls) ==
    IF Len(ls) = 0 THEN <<>>
    ELSE IF Len(ls) = 1 THEN ls[1]
    ELSE ls[1] \o <<NL>> \o Join(Tail(ls))

RowSeqs == UNION { [1..n -> DataLines] : n \in 0..MaxRows }

\* a first line and data lines, joined by line breaks; the empty body is the
\* Blank first line alone, and a body ending in a line break is one whose
\* last line is Blank
Bodies == { Join(<<h>> \o ls) : h \in FirstLines, ls \in RowSeqs }

ErrorBodies == { <<>>, <<"Not", "Found">>, Join(<<Header, RowA>>) }

Statuses == { 200, 304, 404, 500 }

Responses ==
    { [status_code |-> 200, text |-> b, headers |-> "hdrs"] : b \in Bodies }
    \cup { [status_code |-> s, text |-> b, headers |-> "hdrs"] :
               s \in Statuses \ {200}, b \in ErrorBodies }

\* requests.Response.ok: the status is below 400
ok(r) == r.status_code < 400

NoResponse == [status_code |-> 0, text |-> <<>>, headers |-> "none"]

\* requests.get raises instead of returning
TransportErrors == { "Timeout", "ConnectionError" }

\* ------------------------------------------------- PhishtankFeed.get
\* the offset chain: the caller's offset, else the pid of the most recent
\* record of the feed, else the configured last_seen
\* faulty variant of resolve_offset: the store is preferred to the caller's offset
resolve_offset_store_first(off, st, cfg) ==
    LET most_recent_phish == get_most_recent("phishtank", st)
    IN  IF found(most_recent_phish) THEN most_recent_phish[2].pid
        ELSE IF truthy(off) THEN off
        ELSE cfg.last_seen

resolve_offset(off, st, cfg) ==
    IF truthy(off) THEN off
    ELSE LET most_recent_phish == get_most_recent("phishtank", st)
         IN  IF found(most_recent_phish) THEN most_recent_phish[2].pid
             ELSE cfg.last_seen

\* logging.error(...) returns None
logging_error(msg) == None

\* response_txt: '' on a 404, the body otherwise
response_txt(r) == IF r.status_code = 404 THEN <<>> ELSE r.text

\* the message logged when the response is not ok
status_message(r) == <<"Error fetching response", r.status_code, response_txt(r), r.headers>>

\* raise FetchException(logging.error(...)): the exception is built from
\* what logging.error returns
status_exception(r) == <<"FetchException", logging_error(status_message(r))>>

\* raise FetchException('... Invalid response received: {}'.format(entries))
invalid_exception(es) == <<"FetchException", <<"Invalid response received", es>>>>

\* faulty variant of data_rows: the header line is not removed
data_rows_with_header(es) == es

\* entries[1:], the lines after the csv header
data_rows(es) == Tail(es)

\* ----------------------------------------- PhishtankFeed._process_rows
\* the try block: record[1] unquoted and decoded, record[3], record[5]
extractable(record) ==
    /\ Len(record) >= 2
    /\ decodable(unquote(record[2]))
    /\ Len(record) >= 4
    /\ Len(record) >= 6

\* faulty variant of is_duplicate: urls_seen is not looked at
is_duplicate_store_only(url, st, seen) == exists(url, st)

\* Phish.exists(url) or Phish.clean_url(url) in urls_seen
is_duplicate(url, st, seen) ==
    exists(url, st) \/ \E k \in 1..Len(seen) : seen[k] = clean_url(url)

\* faulty variant of seen_key: the raw URL is recorded
seen_key_raw(url) == url

\* the value appended to urls_seen: Phish.clean_url(url)
seen_key(url) == clean_url(url)

\* Phish(pid=..., url=..., feed=self.feed, submission_time=..., verify_time=...)
Phish(record, feed) ==
    [pid |-> PyStr(record[1]), url |-> unquote(record[2]), feed |-> feed,
     submission_time |-> record[4], verify_time |-> record[6]]

\* ---------------------------------------------------------------- Init
Config ==
    [feed |-> "phishtank", url |-> "https://feed", last_seen |-> PyStr(<<"50">>),
     username |-> "user", password |-> "secret"]

Init ==
    /\ pc = "idle"
    /\ store \in Stores
    /\ config = Config
    /\ offset = PyInt(0)
    /\ last = None
    /\ consulted = FALSE
    /\ nreq = 0
    /\ response = NoResponse
    /\ rows = <<>>
    /\ i = 0
    /\ entries = <<>>
    /\ urls_seen = <<>>
    /\ kept = <<>>
    /\ exists_calls = 0
    /\ logged = None
    /\ returned = FALSE
    /\ results = <<>>
    /\ exc = NoExc
    /\ calls = 0
    /\ sent = <<>>
    /\ prev_last = None

\* ------------------------------------------------------------- actions
\* get(offset) is entered and resolves the offset (lines 67-79)
Call ==
    /\ pc \in {"idle", "done"}
    /\ calls < MaxCalls
    /\ \E off \in Offsets :
        /\ offset' = off
        /\ last' = resolve_offset(off, store, config)
        /\ consulted' = ~truthy(off)
    /\ calls' = calls + 1
    /\ pc' = "request"
    /\ nreq' = 0
    /\ response' = NoResponse
    /\ rows' = <<>>
    /\ i' = 0
    /\ entries' = <<>>
    /\ urls_seen' = <<>>
    /\ kept' = <<>>
    /\ exists_calls' = 0
    /\ logged' = None
    /\ returned' = FALSE
    /\ results' = <<>>
    /\ exc' = NoExc
    /\ sent' = <<>>
    /\ prev_last' = IF nreq >= 1 /\ ~truthy(offset) THEN last ELSE None
    /\ UNCHANGED <<store, config>>

\* faulty variant of RequestFails: the request is issued again after a failure
RequestFails_retry ==
    /\ pc = "request"
    /\ nreq' = nreq + 2
    /\ sent' = Append(Append(sent, [last |-> last]), [last |-> last])
    /\ \E e \in TransportErrors : exc' = <<e, None>>
    /\ pc' = "done"
    /\ UNCHANGED <<store, config, offset, last, consulted, response, rows, i,
                   entries, urls_seen, kept, exists_calls, logged, returned,
                   results, calls, prev_last>>

\* requests.get(...) raises: nothing catches it (lines 80-84)
RequestFails ==
    /\ pc = "request"
    /\ nreq' = nreq + 1
    /\ sent' = Append(sent, [last |-> last])
    /\ \E e \in TransportErrors : exc' = <<e, None>>
    /\ pc' = "done"
    /\ UNCHANGED <<store, config, offset, last, consulted, response, rows, i,
                   entries, urls_seen, kept, exists_calls, logged, returned,
                   results, calls, prev_last>>

\* requests.get(...) returns a response (lines 80-85)
RequestResponds ==
    /\ pc = "request"
    /\ nreq' = nreq + 1
    /\ sent' = Append(sent, [last |-> last])
    /\ \E r \in Responses : response' = r
    /\ pc' = "validate"
    /\ UNCHANGED <<store, config, offset, last, consulted, rows, i, entries,
                   urls_seen, kept, exists_calls, logged, returned, results,
                   exc, calls, prev_last>>

\* not response.ok: log and raise (lines 86-94)
RaiseStatus ==
    /\ pc = "validate"
    /\ ~ok(response)
    /\ logged' = status_message(response)
    /\ exc' = status_exception(response)
    /\ pc' = "done"
    /\ UNCHANGED <<store, config, offset, last, consulted, nreq, response, rows,
                   i, entries, urls_seen, kept, exists_calls, returned, results,
                   calls, sent, prev_last>>

\* the body has no lines: raise (lines 97-101)
RaiseInvalid ==
    /\ pc = "validate"
    /\ ok(response)
    /\ Len(splitlines(response.text)) < 1
    /\ exc' = invalid_exception(splitlines(response.text))
    /\ pc' = "done"
    /\ UNCHANGED <<store, config, offset, last, consulted, nreq, response, rows,
                   i, entries, urls_seen, kept, exists_calls, logged, returned,
                   results, calls, sent, prev_last>>

\* the body is the header alone: return results, still [] (lines 103-104)
ReturnEmpty ==
    /\ pc = "validate"
    /\ ok(response)
    /\ Len(splitlines(response.text)) = 1
    /\ returned' = TRUE
    /\ results' = <<>>
    /\ pc' = "done"
    /\ UNCHANGED <<store, config, offset, last, consulted, nreq, response, rows,
                   i, entries, urls_seen, kept, exists_calls, logged, exc,
                   calls, sent, prev_last>>

\* self._process_rows(entries[1:]) is entered (lines 105-106, 37-39)
StartRows ==
    /\ pc = "validate"
    /\ ok(response)
    /\ Len(splitlines(response.text)) > 1
    /\ rows' = data_rows(splitlines(response.text))
    /\ i' = 0
    /\ entries' = <<>>
    /\ urls_seen' = <<>>
    /\ kept' = <<>>
    /\ pc' = "rows"
    /\ UNCHANGED <<store, config, offset, last, consulted, nreq, response,
                   exists_calls, logged, returned, results, exc, calls, sent, prev_last>>

\* one iteration of the loop over the csv reader (lines 40-54)
ProcessRow ==
    /\ pc = "rows"
    /\ i < Len(rows)
    /\ i' = i + 1
    /\ LET record == csv_reader(rows[i + 1])
       IN  IF Len(record) = 0
           THEN \* pid = record[0] is outside the try: IndexError leaves get
                /\ exc' = <<"IndexError", None>>
                /\ pc' = "done"
                /\ UNCHANGED <<entries, urls_seen, kept, exists_calls, logged>>
           ELSE IF ~extractable(record)
           THEN \* except: log and continue
                /\ logged' = <<"cannot extract csv record", record>>
                /\ UNCHANGED <<entries, urls_seen, kept, exists_calls, exc, pc>>
           ELSE LET url == unquote(record[2])
                IN  /\ exists_calls' = exists_calls + 1
                    /\ IF is_duplicate(url, store, urls_seen)
                       THEN UNCHANGED <<entries, urls_seen, kept>>
                       ELSE /\ urls_seen' = Append(urls_seen, seen_key(url))
                            /\ entries' = Append(entries, Phish(record, config.feed))
                            /\ kept' = Append(kept, i + 1)
                    /\ UNCHANGED <<logged, exc, pc>>
    /\ UNCHANGED <<store, config, offset, last, consulted, nreq, response, rows,
                   returned, results, calls, sent, prev_last>>

\* faulty variant of ReturnRows: max_id is stored as the new last_seen
ReturnRows_advancing ==
    /\ pc = "rows"
    /\ i = Len(rows)
    /\ returned' = TRUE
    /\ results' = entries
    /\ pc' = "done"
    /\ config' = [config EXCEPT !.last_seen = PyStr(split(rows[1], Comma)[1])]
    /\ UNCHANGED <<store, offset, last, consulted, nreq, response, rows,
                   i, entries, urls_seen, kept, exists_calls, logged, exc,
                   calls, sent, prev_last>>

\* the reader is exhausted: _process_rows returns entries and get returns
\* them (lines 55-56, 106-107); max_id of line 105 is never used
ReturnRows ==
    /\ pc = "rows"
    /\ i = Len(rows)
    /\ returned' = TRUE
    /\ results' = entries
    /\ pc' = "done"
    /\ UNCHANGED <<store, config, offset, last, consulted, nreq, response, rows,
                   i, entries, urls_seen, kept, exists_calls, logged, exc,
                   calls, sent, prev_last>>

Next ==
    \/ Call
    \/ RequestFails
    \/ RequestResponds
    \/ RaiseStatus
    \/ RaiseInvalid
    \/ ReturnEmpty
    \/ StartRows
    \/ ProcessRow
    \/ ReturnRows

Spec == Init /\ [][Next]_vars

\* ------------------------------------------------- terms of the claims
\* an offset the caller supplied: not the default 0, not '', not None
NonEmpty(off) == off \notin { PyInt(0), PyStr(<<>>), None }

FeedRecords == { r \in store : r.feed = "phishtank" }

\* the lines of the body of the current response
BodyLines == splitlines(response.text)

\* the csv record of the k-th data row
Record(k) == csv_reader(rows[k])

\* the k-th data row has a URL field that decodes
HasUrl(k) == Len(Record(k)) >= 2 /\ decodable(unquote(Record(k)[2]))

Url(k) == unquote(Record(k)[2])

\* the field extraction of the k-th data row succeeds
Valid(k) == HasUrl(k) /\ Len(Record(k)) >= 6

Kept(k) == \E m \in 1..Len(kept) : kept[m] = k

\* no valid data row before row k has a URL that normalizes as that of row k
FirstOfItsUrl(k) ==
    \A j \in 1..(k - 1) : Valid(j) => clean_url(Url(j)) # clean_url(Url(k))

\* ---------------------------------------------------------------- C1
\* C1: the value sent as `last` is the caller's offset when it is non-empty,
\* else the pid of the most recent record of the feed when the store has
\* one, else the configured last_seen; a value is always produced, and
\* get_most_recent is called only when no offset was supplied.
C1_OffsetChain ==
    nreq >= 1 =>
        LET req == sent[Len(sent)]
        IN  /\ req.last # None
            /\ NonEmpty(offset) => (req.last = offset /\ ~consulted)
            /\ (~NonEmpty(offset) /\ FeedRecords # {}) =>
                   \E r \in FeedRecords :
                       /\ \A q \in FeedRecords : q.ts <= r.ts
                       /\ req.last = r.pid
            /\ (~NonEmpty(offset) /\ FeedRecords = {}) => req.last = config.last_seen
            /\ consulted => ~NonEmpty(offset)

C1_Witness ==
    /\ nreq = 1
    /\ offset = PyStr(<<>>)
    /\ FeedRecords # {}
    /\ sent[Len(sent)].last = PyStr(<<"100">>)

\* ---------------------------------------------------------------- C2
\* C2: when the response status is not a success, get raises a
\* FetchException that carries the status code, the body ('' on a 404) and
\* the headers; no row is processed and nothing is returned.
C2_StatusExceptionCarries ==
    (pc = "done" /\ nreq = 1 /\ exc[1] \notin TransportErrors /\ ~ok(response)) =>
        /\ exc = <<"FetchException",
                   <<"Error fetching response", response.status_code,
                     IF response.status_code = 404 THEN <<>> ELSE response.text,
                     response.headers>>>>
        /\ i = 0
        /\ ~returned

\* ---------------------------------------------------------------- C3
\* C3: a data row whose field extraction fails (malformed, undecodable URL,
\* fewer than six columns) is skipped without raising, and the entries of
\* the other rows are returned in input order: a bad row never aborts the
\* batch.
C3_BadRowsSkipped ==
    (pc = "done" /\ Len(rows) > 0) =>
        /\ returned
        /\ exc = NoExc
        /\ \A k \in 1..Len(rows) : ~Valid(k) => ~Kept(k)
        /\ \A m \in 1..(Len(kept) - 1) : kept[m] < kept[m + 1]
        /\ \A k \in 1..Len(rows) :
               (Valid(k) /\ ~exists(Url(k), store) /\ FirstOfItsUrl(k)) => Kept(k)

\* ---------------------------------------------------------------- C4
\* C4: no returned entry has the normalized URL of a URL held by the store.
C4_NoKnownNormalizedUrl ==
    returned =>
        \A m \in 1..Len(results) : \A r \in store :
            clean_url(results[m].url) # clean_url(r.url)

C6_NoTwoEqualNormalized ==
    /\ Len(urls_seen) = Len(entries)
    /\ \A m \in 1..Len(entries) : urls_seen[m] = clean_url(entries[m].url)
    /\ \A m \in 1..Len(entries) : \A n \in 1..Len(entries) :
           m # n => clean_url(entries[m].url) # clean_url(entries[n].url)
    /\ \A m \in 1..Len(results) : \A n \in 1..Len(results) :
           m # n => clean_url(results[m].url) # clean_url(results[n].url)

C6_Witness ==
    /\ returned
    /\ rows = <<RowAq, RowA>>
    /\ urls_seen = <<<<"a">>>>
    /\ Len(results) = 1

\* ---------------------------------------------------------------- C7
\* C7: a get call ends with a list (empty or not) or with a FetchException;
\* a transport failure and a validation failure reach the caller as a
\* FetchException and as no other kind of error.
C7_ThreeOutcomes ==
    pc = "done" =>
        \/ returned /\ exc = NoExc
        \/ ~returned /\ exc[1] = "FetchException"

\* ---------------------------------------------------------------- C8
\* C8: for a response that is ok, with L the number of lines of the body:
\* L = 0 raises FetchException; L = 1 returns [] without entering the row
\* processor or asking the store; L >= 2 gives lines 2..L, in order, to the
\* row processor and returns what it returns.
C8_OutcomeByLineCount ==
    (ok(response) /\ pc \in {"rows", "done"} /\ exc[1] \notin TransportErrors) =>
        LET lines == BodyLines
            L == Len(lines)
        IN  /\ L = 0 => (response.text = <<>> /\ exc[1] = "FetchException" /\ ~returned)
            /\ L = 1 => /\ returned /\ results = <<>> /\ exc = NoExc
                        /\ rows = <<>> /\ i = 0 /\ exists_calls = 0
            /\ L >= 2 => /\ rows = SubSeq(lines, 2, L)
                         /\ returned => (results = entries /\ i = Len(rows))
                         /\ exc[1] # "FetchException"

C8_Witness ==
    /\ pc = "done"
    /\ returned
    /\ BodyLines = <<Header, RowB, RowA>>
    /\ Len(results) = 2

\* ---------------------------------------------------------------- C9
\* C9: a get call issues exactly one request whatever its outcome, after
\* the offset is resolved and before any row is read; no failure makes it
\* issue a second one.
C9_OneRequest ==
    /\ pc \in {"validate", "rows", "done"} => nreq = 1
    /\ pc \in {"idle", "request"} => (nreq = 0 /\ i = 0 /\ rows = <<>>)
    /\ pc = "request" => last # None
    /\ Len(sent) = nreq
    /\ nreq >= 1 => sent[Len(sent)].last = last

C9_Witness ==
    /\ pc = "done"
    /\ exc[1] = "Timeout"
    /\ nreq = 1

\* --------------------------------------------------------------- C10
\* C10: no step of get or _process_rows changes the store or the fields of
\* the feed object, and a call made without an offset right after another
\* such call sends the same `last` as that one did.
C10_StoreAndConfigUnchanged ==
    [][ /\ store' = store
        /\ config' = config
        /\ (prev_last' # None /\ ~NonEmpty(offset') /\ nreq' >= 1)
               => sent'[Len(sent')].last = prev_last' ]_vars

C10_Witness ==
    /\ calls = 2
    /\ pc = "done"
    /\ prev_last # None
    /\ ~NonEmpty(offset)
    /\ sent = <<[last |-> prev_last]>>
    /\ returned
    /\ Len(results) > 0

====
